---- MODULE Spec2Model ----
(***************************************************************************)
(* GameRoomService (src/unnamed/part_005, second class body, lines 370-869) *)
(* over a Firestore collection of room documents, and the room view's      *)
(* start action (src/src/components/GameRoomComponent.tsx).                 *)
(*                                                                         *)
(* Every service method is asynchronous: it reads the room document with   *)
(* getDoc and later issues one or more updateDoc / deleteDoc writes.       *)
(* Each store request is atomic on the document; anything may happen       *)
(* between two requests of one call.  A call is therefore a sequence of    *)
(* actions, one per store request; the client-side code that runs between  *)
(* two awaits is part of the action of the request before it.              *)
(***************************************************************************)
EXTENDS Integers, Sequences, FiniteSets, TLC

\* ---------------------------------------------------------------- constants
\* createRoom writes these two numbers into every room document.
maxPlayersDefault == 10
minPlayersDefault == 5
\* settings.timeLimit default of createRoom
timeLimitDefault == 60

\* ------------------------------------------------------------------- bounds
\* identities that issue calls
NumUsers == 3
\* calls that can be in flight at the same time
NumProcs == 2
\* calls started in one behaviour
MaxCalls == 2
\* room documents created by createRoom in one behaviour
MaxCreates == 1
\* calls per behaviour of the specification of joining and leaving
MaxMemberCalls == 3
\* room views (one per identity) that subscribe to a room
NumViews == 1

Users == 1..NumUsers
Procs == 1..NumProcs
\* a view is named by the identity it belongs to; identity 1 is the host of
\* the room a behaviour starts with, the views are those of the next identities
Views == 2..(NumViews + 1)
\* playerName inputs
Names == {"ann", "bob"}
\* values generateGameCode can return (a two-element sample of [A-Z0-9]^6)
Codes == {"AB12CD", "ZZ99ZZ"}
\* document ids: room 1 is the room the behaviour starts with, the ids after
\* it are handed out by addDoc
RoomIds == 1..(1 + MaxCreates)

VARIABLES
    rooms,      \* the gameRooms collection: document id -> room document
    nextId,     \* the next document id addDoc hands out
    now,        \* the wall clock read by new Date()
    pc,         \* per call slot: where the call stands
    call,       \* per call slot: the method called and its arguments
    loc,        \* per call slot: the locals that live across an await
    ret,        \* per call slot: "" while running, "ok" or the error thrown
    calls,      \* calls started so far
    joined,     \* <<room, uid>>: joinRoom returned true for a new identity,
                \* and since then it has not called leaveRoom, no kickPlayer
                \* has passed its checks against it and the room was not deleted
    left,       \* <<room, uid>>: leaveRoom of a member returned, and the
                \* identity has not called joinRoom since
    listeners   \* per room view: the onSnapshot listener it holds

vars == <<rooms, nextId, now, pc, call, loc, ret, calls, joined, left, listeners>>

\* what every call of the service leaves alone
store == <<rooms, nextId, now, pc, call, loc, ret, calls, joined, left>>

\* ------------------------------------------------------------------- data
NoPlayer == [id |-> 0, name |-> "", profile |-> 0, isHost |-> FALSE,
             joinedAt |-> 0, isReady |-> FALSE]

NoCall == [op |-> "", room |-> 0, uid |-> 0, name |-> "", target |-> 0,
           ready |-> FALSE, settings |-> <<>>]

NoLoc == [old |-> NoPlayer, new |-> NoPlayer, players |-> <<>>,
          hostId |-> 0, status |-> "", minPlayers |-> 0]

\* subscribeToRoom hands the callback the room, or null when the document
\* does not exist
NoSnapshot == [exists |-> FALSE]

\* a room view without listener. `due`: the store has a snapshot for the
\* listener that the callback has not run on yet; `nulls`: callbacks that got
\* null; `late`: a callback ran after one that got null; `shown`: the view's
\* room state; `error`: the view's error state; `exit`: a timer that will call
\* onLeaveRoom is set; `stays`: the view's identity was in the room when the
\* view subscribed, and since then no leaveRoom by it and no kickPlayer
\* against it was called.
NoListener == [on |-> FALSE, room |-> 0, due |-> FALSE, nulls |-> 0,
               late |-> FALSE, shown |-> NoSnapshot, error |-> "",
               exit |-> FALSE, stays |-> FALSE]

\* displayName, email, photoURL and isAnonymous of a Player all come from the
\* identity provider's User object, which is fixed per uid: `profile` stands
\* for the four of them.
createPlayerFromUser(uid, playerName, isHost, t) ==
    [id |-> uid, name |-> playerName, profile |-> uid, isHost |-> isHost,
     joinedAt |-> t, isReady |-> FALSE]

\* ---------------------------------------------------- Firestore primitives
\* a union that puts the new element in front
arrayUnionFront(arr, x) ==
    IF \E i \in 1..Len(arr) : arr[i] = x THEN arr ELSE <<x>> \o arr

\* arrayUnion(x): append x unless an element deep-equal to x is present
arrayUnion(arr, x) ==
    IF \E i \in 1..Len(arr) : arr[i] = x THEN arr ELSE Append(arr, x)

\* arrayRemove(x): drop every element deep-equal to x
arrayRemove(arr, x) == SelectSeq(arr, LAMBDA e : e # x)

exists(r) == r \in DOMAIN rooms

\* updateDoc(ref, patch) on an existing document; patch is a record
updateDoc(r, patch) ==
    [rooms EXCEPT ![r] =
        [k \in DOMAIN rooms[r] |-> IF k \in DOMAIN patch THEN patch[k] ELSE rooms[r][k]]]

deleteDoc(r) == [x \in DOMAIN rooms \ {r} |-> rooms[x]]

\* ------------------------------------------------------------ array helpers
\* Array.prototype.find(p => p.id === id): the first match, or NoPlayer
findById(players, id) ==
    IF \E i \in 1..Len(players) : players[i].id = id
    THEN players[CHOOSE i \in 1..Len(players) :
                    /\ players[i].id = id
                    /\ \A j \in 1..(i - 1) : players[j].id # id]
    ELSE NoPlayer

\* Array.prototype.find(p => p.id !== id)
findOther(players, id) ==
    IF \E i \in 1..Len(players) : players[i].id # id
    THEN players[CHOOSE i \in 1..Len(players) :
                    /\ players[i].id # id
                    /\ \A j \in 1..(i - 1) : players[j].id = id]
    ELSE NoPlayer

hasId(players, id) == \E i \in 1..Len(players) : players[i].id = id

everyReady(players) == \A i \in 1..Len(players) : players[i].isReady

\* a status test that also lets "starting" through
isOpenOrStarting(status) == status \in {"waiting", "ready", "starting"}

isOpen(status) == status = "waiting" \/ status = "ready"

\* createRoom's defaultSettings, with the supplied partial settings spread
\* over them
defaultSettings == [allowSpectators |-> TRUE, chatEnabled |-> TRUE,
                    timeLimit |-> timeLimitDefault, difficultyLevel |-> "normal"]

\* a merge with the spread the other way round: the defaults win
mergeSettingsDefaultsLast(settings) ==
    [k \in DOMAIN defaultSettings |-> defaultSettings[k]]

\* { ...defaults, ...settings }
mergeSettings(settings) ==
    [k \in DOMAIN defaultSettings |->
        IF k \in DOMAIN settings THEN settings[k] ELSE defaultSettings[k]]

\* settings inputs of createRoom: none, or one field overridden
SettingsInputs == {<<>>, [chatEnabled |-> FALSE]}

\* the room document createRoom builds
newRoom(uid, playerName, code, settings, tJoined, tCreated) ==
    [name |-> "room", hostId |-> uid,
     players |-> <<createPlayerFromUser(uid, playerName, TRUE, tJoined)>>,
     maxPlayers |-> maxPlayersDefault, minPlayers |-> minPlayersDefault,
     status |-> "waiting", createdAt |-> tCreated, gameCode |-> code,
     settings |-> mergeSettings(settings)]

\* setPlayerReady's players.map(p => p.id === playerId ? {...p, isReady} : p)
withReady(players, id, ready) ==
    [i \in 1..Len(players) |->
        IF players[i].id = id THEN [players[i] EXCEPT !.isReady = ready]
        ELSE players[i]]

\* a status decision that does not look at the number of players
readyTransitionAnySize(players, minPlayers, status) ==
    LET allReady == everyReady(players)
    IN  IF allReady /\ status = "waiting" THEN "ready"
        ELSE IF ~allReady /\ status = "ready" THEN "waiting"
        ELSE ""

\* setPlayerReady's status decision after its players write: the status to
\* write, or "" for no write; `status` is the one read at the start
readyTransition(players, minPlayers, status) ==
    LET allReady == everyReady(players)
        enoughPlayers == Len(players) >= minPlayers
    IN  IF allReady /\ enoughPlayers /\ status = "waiting" THEN "ready"
        ELSE IF (~allReady \/ ~enoughPlayers) /\ status = "ready" THEN "waiting"
        ELSE ""

\* leaveRoom's host transfer: every player's isHost recomputed, the leaver
\* filtered out
transferPlayers(players, leaver, newHostId) ==
    SelectSeq([i \in 1..Len(players) |->
                  [players[i] EXCEPT !.isHost = (players[i].id = newHostId)]],
              LAMBDA e : e.id # leaver)

\* the room view's canStartGame
canStartGame(room) ==
    Len(room.players) >= room.minPlayers /\ everyReady(room.players)

\* ------------------------------------------------------------------ queries
\* A query is one getDocs request: it is served on the collection as it
\* stands at that moment, `coll`, and changes nothing.

\* game codes as a caller may type them
QueryCodes == Codes \cup {"ab12cd", "Ab12cD", "zz99zz"}

\* String.prototype.toUpperCase on the codes above
toUpperCase(code) ==
    CASE code = "ab12cd" -> "AB12CD"
      [] code = "Ab12cD" -> "AB12CD"
      [] code = "zz99zz" -> "ZZ99ZZ"
      [] OTHER -> code

\* findRoomByCode's null
NoRoom == 0

\* a lookup that compares the code as typed, without toUpperCase
findRoomByCodeAsTyped(coll, gameCode) ==
    LET docs == {r \in DOMAIN coll : coll[r].gameCode = gameCode}
    IN  IF docs = {} THEN {NoRoom} ELSE docs

\* findRoomByCode: the ids of the rooms the call may return. The query has no
\* orderBy, so docs[0] is the match with the least document id; addDoc's ids
\* are random, so that is any of the matches.
findRoomByCode(coll, gameCode) ==
    LET docs == {r \in DOMAIN coll : coll[r].gameCode = toUpperCase(gameCode)}
    IN  IF docs = {} THEN {NoRoom} ELSE docs

\* orderBy('createdAt', 'desc'): the document that comes first among ids,
\* the later document id first among equal createdAt
newest(coll, ids) ==
    CHOOSE r \in ids :
        \A x \in ids : \/ coll[r].createdAt > coll[x].createdAt
                       \/ coll[r].createdAt = coll[x].createdAt /\ r >= x

RECURSIVE orderByCreatedAtDesc(_, _)
orderByCreatedAtDesc(coll, ids) ==
    IF ids = {} THEN <<>>
    ELSE <<newest(coll, ids)>>
             \o orderByCreatedAtDesc(coll, ids \ {newest(coll, ids)})

\* a listing from oldest to newest
getAvailableRoomsOldestFirst(coll) ==
    LET docs == orderByCreatedAtDesc(coll, DOMAIN coll)
        asc == [i \in 1..Len(docs) |-> docs[Len(docs) + 1 - i]]
    IN  SelectSeq(asc, LAMBDA r : isOpen(coll[r].status))

\* getAvailableRooms: the ids of the rooms returned, in the order returned
getAvailableRooms(coll) ==
    SelectSeq(orderByCreatedAtDesc(coll, DOMAIN coll),
              LAMBDA r : isOpen(coll[r].status))

\* ------------------------------------------------------------ initial rooms
\* A behaviour starts with no room, or with room 1 as a sequence of calls that
\* do not overlap leaves it: createRoom by user 1, then joinRoom by the next
\* `a - 1` users and by `n - a` further identities (which issue no call in the
\* behaviour and have all called setPlayerReady(true)), then setPlayerReady
\* by users 1 and 2.
InitSizes == {1, 2, 5, maxPlayersDefault - 1, maxPlayersDefault}

seqPlayers(n, a, r1, r2) ==
    [i \in 1..n |->
        [id |-> IF i <= a THEN i ELSE NumUsers + (i - a),
         name |-> "ann",
         profile |-> IF i <= a THEN i ELSE NumUsers + (i - a),
         isHost |-> (i = 1),
         joinedAt |-> i,
         isReady |-> IF i = 1 THEN r1 ELSE IF i <= a THEN r2 ELSE TRUE]]

seqRoom(n, a, r1, r2) ==
    LET ps == seqPlayers(n, a, r1, r2) IN
    [name |-> "room", hostId |-> 1, players |-> ps,
     maxPlayers |-> maxPlayersDefault, minPlayers |-> minPlayersDefault,
     status |-> IF everyReady(ps) /\ n >= minPlayersDefault THEN "ready" ELSE "waiting",
     createdAt |-> 1, gameCode |-> "AB12CD", settings |-> defaultSettings]

Init ==
    /\ \/ rooms = <<>> /\ now = 0
       \/ \E n \in InitSizes, a \in 1..2, r1 \in BOOLEAN, r2 \in BOOLEAN :
            /\ a <= n
            /\ (a = 1 => r2)
            /\ rooms = (1 :> seqRoom(n, a, r1, r2))
            /\ now = n
    /\ nextId = 2
    /\ pc = [p \in Procs |-> "idle"]
    /\ call = [p \in Procs |-> NoCall]
    /\ loc = [p \in Procs |-> NoLoc]
    /\ ret = [p \in Procs |-> ""]
    /\ calls = 0
    /\ joined = {}
    /\ left = {}
    /\ listeners = [v \in Views |-> NoListener]

\* ------------------------------------------------------------- call slots
\* A call takes the lowest slot that holds no running call.
running(p) == pc[p] \notin {"idle", "done"}

free(p) ==
    /\ ~running(p)
    /\ \A q \in 1..(p - 1) : running(q)

\* Slot p starts call c and its first store request is served; the call goes
\* on at `at` with locals l, or has returned (`at` = "done") with result res.
\* The results of calls that returned before this one started are dropped.
begin(p, c, at, l, res) ==
    /\ pc' = [q \in Procs |-> IF q = p THEN at
                              ELSE IF pc[q] = "done" THEN "idle" ELSE pc[q]]
    /\ call' = [q \in Procs |-> IF q = p THEN c
                                ELSE IF pc[q] = "done" THEN NoCall ELSE call[q]]
    /\ ret' = [q \in Procs |-> IF q = p THEN res
                               ELSE IF pc[q] = "done" THEN "" ELSE ret[q]]
    /\ loc' = [loc EXCEPT ![p] = l]
    /\ calls' = calls + 1

\* Slot p's next store request is served.
step(p, at, l, res) ==
    /\ pc' = [pc EXCEPT ![p] = at]
    /\ loc' = [loc EXCEPT ![p] = l]
    /\ ret' = [ret EXCEPT ![p] = res]
    /\ UNCHANGED <<call, calls>>

\* a call of method op on room r is in flight for identity u
inFlight(op, r, u) ==
    \E q \in Procs : pc[q] \notin {"idle", "done"} /\ call[q].op = op
                     /\ call[q].room = r /\ call[q].uid = u

kickInFlight(r, u) ==
    \E q \in Procs : pc[q] \notin {"idle", "done"} /\ call[q].op = "kickPlayer"
                     /\ call[q].room = r /\ call[q].target = u

dropRoom(s, r) == {x \in s : x[1] # r}

\* ---------------------------------------------------------------- createRoom
\* One store request: addDoc, which always inserts under a fresh document id.
CreateRoom(p) ==
    /\ free(p)
    /\ nextId \in RoomIds
    /\ \E u \in Users, nm \in Names, code \in Codes, st \in SettingsInputs,
          t1 \in {now, now + 1}, t2 \in {now, now + 1} :
        /\ t1 <= t2
        /\ rooms' = rooms @@ (nextId :> newRoom(u, nm, code, st, t1, t2))
        /\ now' = t2
        /\ begin(p, [NoCall EXCEPT !.op = "createRoom", !.room = nextId,
                                   !.uid = u, !.name = nm, !.settings = st],
                 "done", NoLoc, "ok")
    /\ nextId' = nextId + 1
    /\ UNCHANGED <<joined, left>>

\* ------------------------------------------------------------------ joinRoom
\* a joinRoom whose capacity check does not exempt the identities already in
\* the room
joinErrorFullForAll(roomData, uid) ==
    IF Len(roomData.players) >= roomData.maxPlayers THEN "Game room is full"
    ELSE IF hasId(roomData.players, uid) THEN ""
    ELSE IF ~isOpen(roomData.status) THEN "Game has already started"
    ELSE ""

\* joinRoom's checks on the room it read: the message of the error thrown, or
\* "" when the call goes on to a write (the rejoin branch returns before the
\* status check)
joinError(roomData, uid) ==
    IF ~hasId(roomData.players, uid)
       /\ Len(roomData.players) >= roomData.maxPlayers THEN "Game room is full"
    ELSE IF hasId(roomData.players, uid) THEN ""
    ELSE IF ~isOpen(roomData.status) THEN "Game has already started"
    ELSE ""

\* getDoc and the checks up to the first updateDoc
JoinRoomRead(p) ==
    /\ free(p)
    /\ \E r \in RoomIds, u \in Users, nm \in Names, t \in {now, now + 1} :
        LET c == [NoCall EXCEPT !.op = "joinRoom", !.room = r, !.uid = u, !.name = nm]
            roomData == rooms[r]
            existingPlayer == findById(roomData.players, u)
            updatedPlayer ==
                [createPlayerFromUser(u, nm, existingPlayer.isHost, t)
                    EXCEPT !.isReady = existingPlayer.isReady,
                           !.joinedAt = existingPlayer.joinedAt]
            newPlayer == createPlayerFromUser(u, nm, FALSE, t)
        IN  /\ IF ~exists(r)
               THEN begin(p, c, "done", NoLoc, "Game room not found") /\ now' = now
               ELSE IF joinError(roomData, u) # ""
               THEN begin(p, c, "done", NoLoc, joinError(roomData, u)) /\ now' = now
               ELSE IF existingPlayer # NoPlayer
               THEN begin(p, c, "rejoin_remove",
                          [NoLoc EXCEPT !.old = existingPlayer, !.new = updatedPlayer],
                          "") /\ now' = now
               ELSE begin(p, c, "join_add", [NoLoc EXCEPT !.new = newPlayer], "")
                    /\ now' = t
            /\ left' = left \ {<<r, u>>}
    /\ UNCHANGED <<rooms, nextId, joined>>

\* updateDoc(players: arrayUnion(newPlayer)); return true
JoinRoomAdd(p) ==
    /\ pc[p] = "join_add"
    /\ LET r == call[p].room
           u == call[p].uid
       IN  IF ~exists(r)
           THEN /\ step(p, "done", NoLoc, "not-found")
                /\ UNCHANGED <<rooms, joined>>
           ELSE /\ rooms' = updateDoc(r, [players |-> arrayUnion(rooms[r].players, loc[p].new)])
                /\ step(p, "done", NoLoc, "ok")
                /\ joined' = IF inFlight("leaveRoom", r, u) \/ kickInFlight(r, u)
                             THEN joined ELSE joined \cup {<<r, u>>}
    /\ UNCHANGED <<nextId, now, left>>

\* rejoin: updateDoc(players: arrayRemove(existingPlayer))
RejoinRemove(p) ==
    /\ pc[p] = "rejoin_remove"
    /\ LET r == call[p].room
       IN  IF ~exists(r)
           THEN step(p, "done", NoLoc, "not-found") /\ UNCHANGED rooms
           ELSE /\ rooms' = updateDoc(r, [players |-> arrayRemove(rooms[r].players, loc[p].old)])
                /\ step(p, "rejoin_add", loc[p], "")
    /\ UNCHANGED <<nextId, now, joined, left>>

\* rejoin: updateDoc(players: arrayUnion(updatedPlayer)); return true
RejoinAdd(p) ==
    /\ pc[p] = "rejoin_add"
    /\ LET r == call[p].room
       IN  IF ~exists(r)
           THEN step(p, "done", NoLoc, "not-found") /\ UNCHANGED rooms
           ELSE /\ rooms' = updateDoc(r, [players |-> arrayUnion(rooms[r].players, loc[p].new)])
                /\ step(p, "done", NoLoc, "ok")
    /\ UNCHANGED <<nextId, now, joined, left>>

\* ----------------------------------------------------------------- leaveRoom
\* getDoc and the branch taken on the snapshot
leaveRoomGetDoc(p, op, returned) ==
    /\ free(p)
    /\ \E r \in RoomIds, u \in Users :
        LET c == [NoCall EXCEPT !.op = op, !.room = r, !.uid = u]
            roomData == rooms[r]
            playerToRemove == findById(roomData.players, u)
            newHost == findOther(roomData.players, u)
        IN  /\ IF ~exists(r)
               THEN begin(p, c, returned, NoLoc, "ok")
               ELSE IF playerToRemove = NoPlayer
               THEN begin(p, c, returned, NoLoc, "ok")
               ELSE IF playerToRemove.isHost
               THEN IF Len(roomData.players) = 1
                    THEN begin(p, c, "leave_delete", NoLoc, "")
                    ELSE IF newHost # NoPlayer
                    THEN begin(p, c, "leave_transfer",
                               [NoLoc EXCEPT
                                   !.hostId = newHost.id,
                                   !.players = transferPlayers(roomData.players, u, newHost.id)],
                               "")
                    ELSE begin(p, c, returned, NoLoc, "ok")
               ELSE begin(p, c, "leave_remove", [NoLoc EXCEPT !.old = playerToRemove], "")
            /\ joined' = joined \ {<<r, u>>}
    /\ UNCHANGED <<rooms, nextId, now, left>>

LeaveRoomRead(p) == leaveRoomGetDoc(p, "leaveRoom", "done")

\* where a call stands when its leaveRoom has returned normally: a leaveRoom
\* call is done, handleSignOut goes on to signOut(auth)
returned(p) == IF call[p].op = "signOut" THEN "sign_out" ELSE "done"

\* the host is the only player: deleteDoc
LeaveRoomDelete(p) ==
    /\ pc[p] = "leave_delete"
    /\ rooms' = deleteDoc(call[p].room)
    /\ step(p, returned(p), NoLoc, "ok")
    /\ joined' = dropRoom(joined, call[p].room)
    /\ left' = dropRoom(left, call[p].room)
    /\ UNCHANGED <<nextId, now>>

\* the leaver's record in `left` once leaveRoom of a member has returned
leftAfter(r, u) ==
    IF inFlight("joinRoom", r, u) THEN left ELSE left \cup {<<r, u>>}

\* the host leaves a room with other players: updateDoc(hostId, players)
LeaveRoomTransfer(p) ==
    /\ pc[p] = "leave_transfer"
    /\ LET r == call[p].room
       IN  IF ~exists(r)
           THEN step(p, "done", NoLoc, "not-found") /\ UNCHANGED <<rooms, left>>
           ELSE /\ rooms' = updateDoc(r, [hostId |-> loc[p].hostId,
                                          players |-> loc[p].players])
                /\ step(p, returned(p), NoLoc, "ok")
                /\ left' = leftAfter(r, call[p].uid)
    /\ UNCHANGED <<nextId, now, joined>>

\* a non-host leaves: updateDoc(players: arrayRemove(playerToRemove))
LeaveRoomRemove(p) ==
    /\ pc[p] = "leave_remove"
    /\ LET r == call[p].room
       IN  IF ~exists(r)
           THEN step(p, "done", NoLoc, "not-found") /\ UNCHANGED <<rooms, left>>
           ELSE /\ rooms' = updateDoc(r, [players |-> arrayRemove(rooms[r].players, loc[p].old)])
                /\ step(p, returned(p), NoLoc, "ok")
                /\ left' = leftAfter(r, call[p].uid)
    /\ UNCHANGED <<nextId, now, joined>>

\* ---------------------------------------------------------------- kickPlayer
\* a kickPlayer that rejects the host's own identity before it looks at hostId
kickErrorSelfFirst(roomData, hostId, playerIdToKick) ==
    IF hostId = playerIdToKick THEN "Host cannot kick themselves"
    ELSE IF roomData.hostId # hostId THEN "Only the host can kick players"
    ELSE IF ~hasId(roomData.players, playerIdToKick) THEN "Player not found in room"
    ELSE ""

\* kickPlayer's checks on the room it read: the message of the error thrown,
\* or "" when the call goes on to its write
kickError(roomData, hostId, playerIdToKick) ==
    IF roomData.hostId # hostId THEN "Only the host can kick players"
    ELSE IF hostId = playerIdToKick THEN "Host cannot kick themselves"
    ELSE IF ~hasId(roomData.players, playerIdToKick) THEN "Player not found in room"
    ELSE ""

KickPlayerRead(p) ==
    /\ free(p)
    /\ \E r \in RoomIds, u \in Users, target \in Users :
        LET c == [NoCall EXCEPT !.op = "kickPlayer", !.room = r, !.uid = u,
                                !.target = target]
            roomData == rooms[r]
            playerToKick == findById(roomData.players, target)
        IN  /\ IF ~exists(r)
               THEN begin(p, c, "done", NoLoc, "Game room not found")
               ELSE IF kickError(roomData, u, target) # ""
               THEN begin(p, c, "done", NoLoc, kickError(roomData, u, target))
               ELSE begin(p, c, "kick_remove", [NoLoc EXCEPT !.old = playerToKick], "")
            /\ joined' = IF exists(r) /\ kickError(roomData, u, target) = ""
                          THEN joined \ {<<r, target>>} ELSE joined
    /\ UNCHANGED <<rooms, nextId, now, left>>

\* updateDoc(players: arrayRemove(playerToKick))
KickPlayerRemove(p) ==
    /\ pc[p] = "kick_remove"
    /\ LET r == call[p].room
       IN  IF ~exists(r)
           THEN step(p, "done", NoLoc, "not-found") /\ UNCHANGED rooms
           ELSE /\ rooms' = updateDoc(r, [players |-> arrayRemove(rooms[r].players, loc[p].old)])
                /\ step(p, "done", NoLoc, "ok")
    /\ UNCHANGED <<nextId, now, joined, left>>

\* ---------------------------------------------------------------- deleteRoom
\* a deleteRoom that looks at the status before it looks at hostId
deleteErrorStatusFirst(roomData, hostId) ==
    IF ~isOpen(roomData.status) THEN "Cannot delete room after game has started"
    ELSE IF roomData.hostId # hostId THEN "Only the host can delete the room"
    ELSE ""

\* deleteRoom's checks on the room it read: the message of the error thrown,
\* or "" when the call goes on to deleteDoc
deleteError(roomData, hostId) ==
    IF roomData.hostId # hostId THEN "Only the host can delete the room"
    ELSE IF ~isOpen(roomData.status) THEN "Cannot delete room after game has started"
    ELSE ""

DeleteRoomRead(p) ==
    /\ free(p)
    /\ \E r \in RoomIds, u \in Users :
        LET c == [NoCall EXCEPT !.op = "deleteRoom", !.room = r, !.uid = u]
            roomData == rooms[r]
        IN  IF ~exists(r)
            THEN begin(p, c, "done", NoLoc, "Game room not found")
            ELSE IF deleteError(roomData, u) # ""
            THEN begin(p, c, "done", NoLoc, deleteError(roomData, u))
            ELSE begin(p, c, "delete_doc", NoLoc, "")
    /\ UNCHANGED <<rooms, nextId, now, joined, left>>

DeleteRoomDelete(p) ==
    /\ pc[p] = "delete_doc"
    /\ rooms' = deleteDoc(call[p].room)
    /\ step(p, "done", NoLoc, "ok")
    /\ joined' = dropRoom(joined, call[p].room)
    /\ left' = dropRoom(left, call[p].room)
    /\ UNCHANGED <<nextId, now>>

\* ------------------------------------------------------------ setPlayerReady
SetPlayerReadyRead(p) ==
    /\ free(p)
    /\ \E r \in RoomIds, u \in Users, isReady \in BOOLEAN :
        LET c == [NoCall EXCEPT !.op = "setPlayerReady", !.room = r, !.uid = u,
                                !.ready = isReady]
            roomData == rooms[r]
        IN  IF ~exists(r)
            THEN begin(p, c, "done", NoLoc, "Room not found")
            ELSE begin(p, c, "ready_players",
                       [NoLoc EXCEPT
                           !.old = findById(roomData.players, u),
                           !.players = withReady(roomData.players, u, isReady),
                           !.status = roomData.status,
                           !.minPlayers = roomData.minPlayers],
                       "")
    /\ UNCHANGED <<rooms, nextId, now, joined, left>>

\* updateDoc(players: updatedPlayers), then the status decision
SetPlayerReadyPlayers(p) ==
    /\ pc[p] = "ready_players"
    /\ LET r == call[p].room
       IN  IF ~exists(r)
           THEN step(p, "done", NoLoc, "not-found") /\ UNCHANGED rooms
           ELSE /\ rooms' = updateDoc(r, [players |-> loc[p].players])
                /\ IF readyTransition(loc[p].players, loc[p].minPlayers, loc[p].status) = ""
                   THEN step(p, "done", NoLoc, "ok")
                   ELSE step(p, "ready_status", loc[p], "")
    /\ UNCHANGED <<nextId, now, joined, left>>

\* updateDoc(status: 'ready' | 'waiting')
SetPlayerReadyStatus(p) ==
    /\ pc[p] = "ready_status"
    /\ LET r == call[p].room
       IN  IF ~exists(r)
           THEN step(p, "done", NoLoc, "not-found") /\ UNCHANGED rooms
           ELSE /\ rooms' = updateDoc(r, [status |->
                              readyTransition(loc[p].players, loc[p].minPlayers, loc[p].status)])
                /\ step(p, "done", NoLoc, "ok")
    /\ UNCHANGED <<nextId, now, joined, left>>

\* ------------------------------------------- handleStartGame / updateRoomStatus
\* The room view's start button: the guard is evaluated on the snapshot the
\* view holds, the write is issued afterwards.
StartGameRead(p) ==
    /\ free(p)
    /\ \E r \in RoomIds, u \in Users :
        LET c == [NoCall EXCEPT !.op = "startGame", !.room = r, !.uid = u]
            room == rooms[r]
            isHost == findById(room.players, u).isHost
        IN  IF ~exists(r) \/ ~isHost \/ ~canStartGame(room)
            THEN begin(p, c, "done", NoLoc, "ok")
            ELSE begin(p, c, "start_status", NoLoc, "")
    /\ UNCHANGED <<rooms, nextId, now, joined, left>>

\* updateRoomStatus(roomId, 'starting'): updateDoc(status)
UpdateRoomStatus(p) ==
    /\ pc[p] = "start_status"
    /\ LET r == call[p].room
       IN  IF ~exists(r)
           THEN step(p, "done", NoLoc, "not-found") /\ UNCHANGED rooms
           ELSE /\ rooms' = updateDoc(r, [status |-> "starting"])
                /\ step(p, "done", NoLoc, "ok")
    /\ UNCHANGED <<nextId, now, joined, left>>

\* ------------------------------------------------------------ the join page
\* handleAutoJoin on the room findRoomByCode returned (NoSnapshot for null):
\* the appState it sets before any joinRoom call, "joining" when it goes on to
\* call joinRoom
handleAutoJoin(room, uid) ==
    IF room = NoSnapshot THEN "auth"
    ELSE IF Len(room.players) >= room.maxPlayers THEN "auth"
    ELSE IF findById(room.players, uid) # NoPlayer THEN "room"
    ELSE "joining"

\* ------------------------------------------------------------ handleSignOut
\* The page's sign-out while it holds a current room: leaveRoom(currentRoomId,
\* user.uid) first, here its getDoc; the writes are those of leaveRoom.
HandleSignOut(p) == leaveRoomGetDoc(p, "signOut", "sign_out")

\* leaveRoom has returned: signOut(auth), then setAppState and
\* setCurrentRoomId(null). A call that ends with "signed out" has ended the
\* auth session and cleared the page's current room; one that ends with an
\* error went to the catch block, which leaves both as they were.
SignOut(p) ==
    /\ pc[p] = "sign_out"
    /\ step(p, "done", NoLoc, "signed out")
    /\ UNCHANGED <<rooms, nextId, now, joined, left>>

\* ------------------------------------------------------------ failed writes
\* The store rejects the request a call is waiting for (the client is offline
\* too long, the rules deny it, the quota is used up): updateDoc or deleteDoc
\* throws, the method's catch block throws the error on, nothing is written.
WriteFails(p) ==
    /\ running(p)
    /\ pc[p] # "sign_out"
    /\ step(p, "done", NoLoc, "unavailable")
    /\ UNCHANGED <<rooms, nextId, now, joined, left>>

\* ------------------------------------------------------------ subscriptions
\* a subscribeToRoom that takes the null branch whatever the document
snapshotNull(coll, r) == NoSnapshot

snapshot(coll, r) == IF r \in DOMAIN coll THEN coll[r] ELSE NoSnapshot

\* onSnapshot: the store has a new snapshot for every listener of a document
\* that a write changed (or deleted)
notify(ls, before, after) ==
    [v \in Views |->
        IF /\ ls[v].on
           /\ \/ (ls[v].room \in DOMAIN before) # (ls[v].room \in DOMAIN after)
              \/ /\ ls[v].room \in DOMAIN before
                 /\ ls[v].room \in DOMAIN after
                 /\ before[ls[v].room] # after[ls[v].room]
        THEN [ls[v] EXCEPT !.due = TRUE] ELSE ls[v]]

\* the room view mounts: its effect calls subscribeToRoom, and onSnapshot
\* owes the listener a first snapshot. View v is the view of identity v. A
\* timer set by an earlier view of the page is still set.
Subscribe(v) ==
    /\ ~listeners[v].on
    /\ \E r \in RoomIds :
          listeners' = [listeners EXCEPT ![v] =
              [NoListener EXCEPT !.on = TRUE, !.room = r, !.due = TRUE,
                                 !.exit = listeners[v].exit,
                                 !.stays = exists(r) /\ hasId(rooms[r].players, v)]]
    /\ UNCHANGED store

\* a room view that exits on every snapshot of an existing room
userStillInRoomNever(updatedRoom, uid) == FALSE

\* updatedRoom.players.some(p => p.id === user.uid)
userStillInRoom(updatedRoom, uid) == hasId(updatedRoom.players, uid)

\* the view's callback on updatedRoom: the view (of identity uid) after it.
\* onStartGame takes the page to the game view, which unmounts the room view.
onSnapshotCallback(l, updatedRoom, uid) ==
    IF updatedRoom = NoSnapshot
    THEN [l EXCEPT !.error = "Room no longer exists", !.exit = TRUE]
    ELSE IF ~userStillInRoom(updatedRoom, uid)
    THEN [l EXCEPT !.error = "You have been removed from the room", !.exit = TRUE]
    ELSE IF updatedRoom.status \in {"starting", "in_progress"}
    THEN [NoListener EXCEPT !.exit = l.exit]
    ELSE [l EXCEPT !.shown = updatedRoom]

\* the listener runs on the document as it stands: callback(room) or
\* callback(null), and the view's callback on it
Deliver(v) ==
    /\ listeners[v].on
    /\ listeners[v].due
    /\ listeners' = [listeners EXCEPT ![v] =
          onSnapshotCallback(
              [@ EXCEPT
                  !.due = FALSE,
                  !.nulls = IF snapshot(rooms, listeners[v].room) = NoSnapshot
                            THEN (IF @ < 2 THEN @ + 1 ELSE @) ELSE @,
                  !.late = @ \/ listeners[v].nulls >= 1],
              snapshot(rooms, listeners[v].room), v)]
    /\ UNCHANGED store

\* the room view unmounts: the effect's cleanup calls unsubscribe; a timer
\* the view has set is not cleared
Unsubscribe(v) ==
    /\ listeners[v].on
    /\ listeners' = [listeners EXCEPT ![v] = [NoListener EXCEPT !.exit = listeners[v].exit]]
    /\ UNCHANGED store

\* the timer fires: onLeaveRoom takes the page to the lobby, which unmounts
\* the room view
LeaveTimer(v) ==
    /\ listeners[v].exit
    /\ listeners' = [listeners EXCEPT ![v] = NoListener]
    /\ UNCHANGED store

\* what the views see of a step of the service: the snapshots owed by
\* onSnapshot, and whether the step is a leaveRoom by a view's identity or a
\* kickPlayer against it
observe(ls) ==
    notify([v \in Views |->
               IF \E p \in Procs :
                     /\ pc'[p] # pc[p]
                     /\ \/ call'[p].op = "leaveRoom" /\ call'[p].uid = v
                        \/ call'[p].op = "kickPlayer" /\ call'[p].target = v
               THEN [ls[v] EXCEPT !.stays = FALSE] ELSE ls[v]],
           rooms, rooms')

\* ------------------------------------------------------------- specification
\* A behaviour holds at most MaxCalls calls; a call that has started runs on.
\* No room view is open.
Next ==
    \E p \in Procs :
        \/ calls < MaxCalls /\ CreateRoom(p) /\ UNCHANGED listeners
        \/ calls < MaxCalls /\ JoinRoomRead(p) /\ UNCHANGED listeners
        \/ JoinRoomAdd(p) /\ UNCHANGED listeners
        \/ RejoinRemove(p) /\ UNCHANGED listeners
        \/ RejoinAdd(p) /\ UNCHANGED listeners
        \/ calls < MaxCalls /\ LeaveRoomRead(p) /\ UNCHANGED listeners
        \/ LeaveRoomDelete(p) /\ UNCHANGED listeners
        \/ LeaveRoomTransfer(p) /\ UNCHANGED listeners
        \/ LeaveRoomRemove(p) /\ UNCHANGED listeners
        \/ calls < MaxCalls /\ KickPlayerRead(p) /\ UNCHANGED listeners
        \/ KickPlayerRemove(p) /\ UNCHANGED listeners
        \/ calls < MaxCalls /\ DeleteRoomRead(p) /\ UNCHANGED listeners
        \/ DeleteRoomDelete(p) /\ UNCHANGED listeners
        \/ calls < MaxCalls /\ SetPlayerReadyRead(p) /\ UNCHANGED listeners
        \/ SetPlayerReadyPlayers(p) /\ UNCHANGED listeners
        \/ SetPlayerReadyStatus(p) /\ UNCHANGED listeners
        \/ calls < MaxCalls /\ StartGameRead(p) /\ UNCHANGED listeners
        \/ UpdateRoomStatus(p) /\ UNCHANGED listeners

Spec == Init /\ [][Next]_vars

\* Joining and leaving only, over one call more than MaxCalls: the rooms that
\* two overlapping joins leave behind, and a further call on them.
NextMembership ==
    \E p \in Procs :
        \/ calls < MaxMemberCalls /\ JoinRoomRead(p) /\ UNCHANGED listeners
        \/ JoinRoomAdd(p) /\ UNCHANGED listeners
        \/ RejoinRemove(p) /\ UNCHANGED listeners
        \/ RejoinAdd(p) /\ UNCHANGED listeners
        \/ calls < MaxMemberCalls /\ LeaveRoomRead(p) /\ UNCHANGED listeners
        \/ LeaveRoomDelete(p) /\ UNCHANGED listeners
        \/ LeaveRoomTransfer(p) /\ UNCHANGED listeners
        \/ LeaveRoomRemove(p) /\ UNCHANGED listeners

SpecMembership == Init /\ [][NextMembership]_vars

\* Room views that subscribe, are called back and unsubscribe, next to the
\* calls that change or delete the room they watch.
NextSubscriptions ==
    \/ \E v \in Views : Subscribe(v)
    \/ \E v \in Views : Deliver(v)
    \/ \E v \in Views : Unsubscribe(v)
    \/ \E v \in Views : LeaveTimer(v)
    \/ \E p \in Procs :
          \/ calls < MaxCalls /\ JoinRoomRead(p) /\ listeners' = observe(listeners)
          \/ JoinRoomAdd(p) /\ listeners' = observe(listeners)
          \/ RejoinRemove(p) /\ listeners' = observe(listeners)
          \/ RejoinAdd(p) /\ listeners' = observe(listeners)
          \/ calls < MaxCalls /\ LeaveRoomRead(p) /\ listeners' = observe(listeners)
          \/ LeaveRoomDelete(p) /\ listeners' = observe(listeners)
          \/ LeaveRoomTransfer(p) /\ listeners' = observe(listeners)
          \/ LeaveRoomRemove(p) /\ listeners' = observe(listeners)
          \/ calls < MaxCalls /\ KickPlayerRead(p) /\ listeners' = observe(listeners)
          \/ KickPlayerRemove(p) /\ listeners' = observe(listeners)
          \/ calls < MaxCalls /\ DeleteRoomRead(p) /\ listeners' = observe(listeners)
          \/ DeleteRoomDelete(p) /\ listeners' = observe(listeners)
          \/ calls < MaxCalls /\ SetPlayerReadyRead(p) /\ listeners' = observe(listeners)
          \/ SetPlayerReadyPlayers(p) /\ listeners' = observe(listeners)
          \/ SetPlayerReadyStatus(p) /\ listeners' = observe(listeners)

SpecSubscriptions == Init /\ [][NextSubscriptions]_vars

\* joinRoom and setPlayerReady calls whose writes the store may reject
NextFailures ==
    \E p \in Procs :
        \/ calls < MaxCalls /\ JoinRoomRead(p) /\ UNCHANGED listeners
        \/ JoinRoomAdd(p) /\ UNCHANGED listeners
        \/ RejoinRemove(p) /\ UNCHANGED listeners
        \/ RejoinAdd(p) /\ UNCHANGED listeners
        \/ calls < MaxCalls /\ SetPlayerReadyRead(p) /\ UNCHANGED listeners
        \/ SetPlayerReadyPlayers(p) /\ UNCHANGED listeners
        \/ SetPlayerReadyStatus(p) /\ UNCHANGED listeners
        \/ WriteFails(p) /\ UNCHANGED listeners

SpecFailures == Init /\ [][NextFailures]_vars

\* Sign-outs next to joinRoom calls, over MaxMemberCalls calls, with writes
\* the store may reject
NextSignOut ==
    \E p \in Procs :
        \/ calls < MaxMemberCalls /\ JoinRoomRead(p) /\ UNCHANGED listeners
        \/ JoinRoomAdd(p) /\ UNCHANGED listeners
        \/ RejoinRemove(p) /\ UNCHANGED listeners
        \/ RejoinAdd(p) /\ UNCHANGED listeners
        \/ calls < MaxMemberCalls /\ HandleSignOut(p) /\ UNCHANGED listeners
        \/ LeaveRoomDelete(p) /\ UNCHANGED listeners
        \/ LeaveRoomTransfer(p) /\ UNCHANGED listeners
        \/ LeaveRoomRemove(p) /\ UNCHANGED listeners
        \/ SignOut(p) /\ UNCHANGED listeners
        \/ WriteFails(p) /\ UNCHANGED listeners

SpecSignOut == Init /\ [][NextSignOut]_vars

\* ------------------------------------------------------------------- claims
hosts(players) == {i \in 1..Len(players) : players[i].isHost}

uniqueIds(players) ==
    \A i \in 1..Len(players), j \in 1..Len(players) :
        i # j => players[i].id # players[j].id

\* C1: in every reachable state a room has at most maxPlayers players, also
\* when joinRoom calls by distinct new identities interleave (stated for the
\* rooms whose players are distinct identities).
C1_PlayersAtMostMax ==
    \A r \in DOMAIN rooms :
        uniqueIds(rooms[r].players) => Len(rooms[r].players) <= rooms[r].maxPlayers

\* C2: in every reachable state an existing room with at least one player has
\* exactly one player with isHost = true.
C2_ExactlyOneHost ==
    \A r \in DOMAIN rooms :
        Len(rooms[r].players) >= 1 => Cardinality(hosts(rooms[r].players)) = 1

\* C3: no room document exists with an empty players list, the states between
\* the two writes of a rejoin included.
C3_NeverEmpty ==
    \A r \in DOMAIN rooms : Len(rooms[r].players) >= 1

\* C4: at every moment no two existing rooms have the same gameCode; createRoom
\* never inserts a room under a code an existing room has.
C4_UniqueGameCode ==
    \A r1 \in DOMAIN rooms, r2 \in DOMAIN rooms :
        r1 # r2 => rooms[r1].gameCode # rooms[r2].gameCode

\* C5: when two setPlayerReady calls for two different players of one room
\* overlap and both have returned, each of the two players has the isReady
\* value its call asked for.
C5_BothReadyFlagsKept ==
    \A p \in Procs, q \in Procs :
        ( /\ p # q
          /\ pc[p] = "done" /\ pc[q] = "done"
          /\ \A o \in Procs \ {p, q} : pc[o] = "idle"
          /\ call[p].op = "setPlayerReady" /\ call[q].op = "setPlayerReady"
          /\ ret[p] = "ok" /\ ret[q] = "ok"
          /\ call[p].room = call[q].room
          /\ call[p].uid # call[q].uid
          /\ exists(call[p].room)
          /\ hasId(rooms[call[p].room].players, call[p].uid)
          /\ hasId(rooms[call[p].room].players, call[q].uid) )
        => /\ findById(rooms[call[p].room].players, call[p].uid).isReady = call[p].ready
           /\ findById(rooms[call[p].room].players, call[q].uid).isReady = call[q].ready

\* C6: once joinRoom has returned true for a new identity, the identity is in
\* the room's players list until it calls leaveRoom, a kickPlayer names it or
\* the room is deleted (a joinRoom of the same identity that is rewriting its
\* record is left aside).
C6_JoinNeverLost ==
    \A x \in joined :
        /\ exists(x[1])
        /\ hasId(rooms[x[1]].players, x[2]) \/ inFlight("joinRoom", x[1], x[2])

\* C7: once leaveRoom has returned for an identity that was a member, and the
\* room still exists, the identity is absent from the players list until it
\* calls joinRoom again.
C7_LeaveNeverUndone ==
    \A x \in left : exists(x[1]) => ~hasId(rooms[x[1]].players, x[2])

\* C8: the status write of setPlayerReady never changes a status that is
\* outside {waiting, ready} at the moment of the write.
C8_ReadyKeepsStartedStatus ==
    [][\A p \in Procs :
          ( /\ pc[p] = "ready_status" /\ pc'[p] = "done"
            /\ exists(call[p].room)
            /\ ~isOpen(rooms[call[p].room].status) )
          => rooms'[call[p].room].status = rooms[call[p].room].status]_vars

\* C9: in every reachable state no two entries of a room's players list have
\* the same id.
C9_UniquePlayerIds ==
    \A r \in DOMAIN rooms : uniqueIds(rooms[r].players)

\* C10: when the host of a room with two or more players leaves (no other call
\* in flight at its write), the room it leaves behind has exactly one player
\* with isHost = true, that player has the smallest joinedAt of the remaining
\* players and hostId is that player's id.
C10_NewHostIsEarliestJoined ==
    [][\A p \in Procs :
          ( /\ pc[p] = "leave_transfer" /\ pc'[p] = "done" /\ ret'[p] = "ok"
            /\ \A q \in Procs \ {p} : ~running(q) )
          => LET ps == rooms'[call[p].room].players
             IN  \E i \in 1..Len(ps) :
                    /\ hosts(ps) = {i}
                    /\ \A j \in 1..Len(ps) : ps[i].joinedAt <= ps[j].joinedAt
                    /\ rooms'[call[p].room].hostId = ps[i].id]_vars

\* C11: in every reachable state of an existing room, hostId is the id of a
\* player in the players list and the players with isHost = true are exactly
\* the players with that id.
C11_HostIdIsTheHost ==
    \A r \in DOMAIN rooms :
        /\ hasId(rooms[r].players, rooms[r].hostId)
        /\ \A i \in 1..Len(rooms[r].players) :
              rooms[r].players[i].isHost <=> rooms[r].players[i].id = rooms[r].hostId

\* C12: the write of kickPlayer removes nobody from a room whose status is
\* starting or later.
C12_NoKickAfterStart ==
    [][\A p \in Procs :
          ( /\ pc[p] = "kick_remove" /\ pc'[p] = "done"
            /\ exists(call[p].room)
            /\ ~isOpen(rooms[call[p].room].status) )
          => rooms'[call[p].room].players = rooms[call[p].room].players]_vars

\* C13: the write of joinRoom for a new identity adds nobody to a room whose
\* status is starting or later at the moment of the write.
C13_NoJoinAfterStart ==
    [][\A p \in Procs :
          ( /\ pc[p] = "join_add" /\ pc'[p] = "done"
            /\ exists(call[p].room)
            /\ ~isOpen(rooms[call[p].room].status) )
          => rooms'[call[p].room].players = rooms[call[p].room].players]_vars

\* C14: the host start action writes status starting only when, on the room as
\* stored at the moment of the write, the requester is the host, the room has
\* at least minPlayers players and every player is ready.
C14_StartOnlyWithQuorum ==
    [][\A p \in Procs :
          ( /\ pc[p] = "start_status" /\ pc'[p] = "done" /\ ret'[p] = "ok" )
          => /\ findById(rooms[call[p].room].players, call[p].uid).isHost
             /\ canStartGame(rooms[call[p].room])]_vars

\* C15: every change of a room's status follows an edge of
\* waiting <-> ready -> starting: never waiting -> starting, never starting ->
\* waiting or ready.
C15_StatusFollowsMachine ==
    [][\A r \in DOMAIN rooms :
          (r \in DOMAIN rooms' /\ rooms'[r].status # rooms[r].status)
          => \/ rooms[r].status = "waiting" /\ rooms'[r].status = "ready"
             \/ rooms[r].status = "ready" /\ rooms'[r].status = "waiting"
             \/ rooms[r].status = "ready" /\ rooms'[r].status = "starting"]_vars

\* a setPlayerReady call of slot p returns with this step, and no other call
\* ran while it did
readyAlone(p) ==
    /\ pc[p] \in {"ready_players", "ready_status"}
    /\ pc'[p] = "done"
    /\ ret'[p] = "ok"
    /\ \A q \in Procs \ {p} : pc'[q] = "idle"

\* C16: a setPlayerReady call on a room in status waiting leaves it in status
\* ready exactly when, after the update, every player is ready and there are
\* at least minPlayers players; on a room in status ready it leaves it in
\* status waiting exactly when, after the update, some player is not ready or
\* there are fewer than minPlayers players; otherwise the status is unchanged.
C16_ReadyStatusDecision ==
    [][\A p \in Procs :
          readyAlone(p) =>
              LET r == call[p].room
                  before == rooms[r].status
                  after == rooms'[r].players
                  quorum == everyReady(after) /\ Len(after) >= rooms'[r].minPlayers
              IN  /\ after = withReady(rooms[r].players, call[p].uid, call[p].ready)
                  /\ (before = "waiting" /\ quorum) => rooms'[r].status = "ready"
                  /\ (before = "ready" /\ ~quorum) => rooms'[r].status = "waiting"
                  /\ ~(before = "waiting" /\ quorum) /\ ~(before = "ready" /\ ~quorum)
                        => rooms'[r].status = before]_vars

\* a call alone in a waiting room is about to write status ready
C16_Witness ==
    \E p \in Procs :
        /\ pc[p] = "ready_status"
        /\ \A q \in Procs \ {p} : pc[q] = "idle"
        /\ rooms[call[p].room].status = "waiting"
        /\ everyReady(rooms[call[p].room].players)
        /\ Len(rooms[call[p].room].players) >= rooms[call[p].room].minPlayers

\* slot p starts a call of method op with this step
starts(p, op) ==
    /\ ~running(p)
    /\ calls' = calls + 1
    /\ call'[p].op = op
    /\ pc'[p] # "idle"

\* C17: kickPlayer fails with "Only the host can kick players" when the
\* requester is not the room's hostId, with "Host cannot kick themselves" when
\* the host targets itself, and with "Player not found in room" when the host
\* targets an identity not in the room, checked in that order; a failing call
\* returns without a write and the room is unchanged.
C17_KickErrorsInOrder ==
    [][\A p \in Procs :
          (starts(p, "kickPlayer") /\ exists(call'[p].room)) =>
              LET room == rooms[call'[p].room]
                  requesterId == call'[p].uid
                  targetId == call'[p].target
                  notHost == room.hostId # requesterId
                  self == requesterId = targetId
                  absent == \A i \in 1..Len(room.players) : room.players[i].id # targetId
              IN  /\ notHost => ret'[p] = "Only the host can kick players"
                  /\ (~notHost /\ self) => ret'[p] = "Host cannot kick themselves"
                  /\ (~notHost /\ ~self /\ absent) => ret'[p] = "Player not found in room"
                  /\ (notHost \/ self \/ absent) => (pc'[p] = "done" /\ rooms' = rooms)
                  /\ ~(notHost \/ self \/ absent) => pc'[p] = "kick_remove"]_vars

\* a requester that is not the host has targeted itself and was told it is
\* not the host
C17_Witness ==
    \E p \in Procs :
        /\ pc[p] = "done"
        /\ call[p].op = "kickPlayer"
        /\ call[p].uid = call[p].target
        /\ ret[p] = "Only the host can kick players"
        /\ exists(call[p].room)
        /\ hasId(rooms[call[p].room].players, call[p].uid)

\* C19: deleteRoom fails with "Only the host can delete the room" when the
\* requester is not the room's host and with "Cannot delete room after game
\* has started" when the status is not waiting or ready, the host check first;
\* a failing call returns without a write and the room exists unchanged; only
\* a call by the host on a room in status waiting or ready goes on to delete
\* the room, and a room is deleted by no other call than that or the leave of
\* its only player.
C19_DeleteErrorsInOrder ==
    [][/\ \A p \in Procs :
            (starts(p, "deleteRoom") /\ exists(call'[p].room)) =>
                LET room == rooms[call'[p].room]
                    notHost == room.hostId # call'[p].uid
                    started == room.status \notin {"waiting", "ready"}
                IN  /\ notHost => ret'[p] = "Only the host can delete the room"
                    /\ (~notHost /\ started)
                          => ret'[p] = "Cannot delete room after game has started"
                    /\ (notHost \/ started) => (pc'[p] = "done" /\ rooms' = rooms)
                    /\ (pc'[p] = "delete_doc") <=> ~(notHost \/ started)
       /\ \A r \in DOMAIN rooms :
            r \notin DOMAIN rooms' =>
                \E p \in Procs : /\ call[p].room = r
                                 /\ pc[p] \in {"delete_doc", "leave_delete"}
                                 /\ pc'[p] = "done"
       /\ \A p \in Procs :
            (pc[p] = "delete_doc" /\ pc'[p] = "done")
                => call[p].room \notin DOMAIN rooms']_vars

\* a requester that is not the host was refused on a room that has started,
\* and the room is still there
C19_Witness ==
    \E p \in Procs :
        /\ pc[p] = "done"
        /\ call[p].op = "deleteRoom"
        /\ ret[p] = "Only the host can delete the room"
        /\ exists(call[p].room)
        /\ rooms[call[p].room].status = "starting"

\* the players list without the entries of identity id
withoutId(players, id) == SelectSeq(players, LAMBDA e : e.id # id)

\* C18: when kickPlayer returns without error, the target is no longer in the
\* players list, and hostId, the status and every other player are unchanged
\* by its write.
C18_KickRemovesTarget ==
    [][\A p \in Procs :
          ( /\ pc[p] = "kick_remove" /\ pc'[p] = "done" /\ ret'[p] = "ok" )
          => /\ ~hasId(rooms'[call[p].room].players, call[p].target)
             /\ rooms'[call[p].room].players =
                    withoutId(rooms[call[p].room].players, call[p].target)
             /\ rooms'[call[p].room].hostId = rooms[call[p].room].hostId
             /\ rooms'[call[p].room].status = rooms[call[p].room].status]_vars

\* That statement of the claim C20 where each error is promised whenever its
\* own condition holds: joinRoom by an identity not in the room fails with
\* "Game room is full" when players.length >= maxPlayers and with "Game has
\* already started" when the status is not waiting or ready.
C20_JoinErrorsUnordered ==
    [][\A p \in Procs :
          ( /\ starts(p, "joinRoom")
            /\ exists(call'[p].room)
            /\ ~hasId(rooms[call'[p].room].players, call'[p].uid) ) =>
              LET room == rooms[call'[p].room]
                  full == Len(room.players) >= room.maxPlayers
                  started == room.status \notin {"waiting", "ready"}
              IN  /\ full => ret'[p] = "Game room is full"
                  /\ started => ret'[p] = "Game has already started"
                  /\ (full \/ started) => rooms' = rooms]_vars

\* C20: joinRoom by an identity not in the room fails with "Game room is
\* full" when players.length >= maxPlayers, and with "Game has already
\* started" when the room is not full and the status is not waiting or ready;
\* in both cases the call returns without a write and the room is unchanged;
\* in no other case does the call fail.
C20_JoinErrorsFullFirst ==
    [][\A p \in Procs :
          ( /\ starts(p, "joinRoom")
            /\ exists(call'[p].room)
            /\ ~hasId(rooms[call'[p].room].players, call'[p].uid) ) =>
              LET room == rooms[call'[p].room]
                  full == Len(room.players) >= room.maxPlayers
                  started == room.status \notin {"waiting", "ready"}
              IN  /\ full => ret'[p] = "Game room is full"
                  /\ (~full /\ started) => ret'[p] = "Game has already started"
                  /\ (full \/ started) => (pc'[p] = "done" /\ rooms' = rooms)
                  /\ ~(full \/ started) => pc'[p] = "join_add"]_vars

\* a new identity was refused as "full" by a full room that has started
C20_Witness ==
    \E p \in Procs :
        /\ pc[p] = "done"
        /\ call[p].op = "joinRoom"
        /\ ret[p] = "Game room is full"
        /\ exists(call[p].room)
        /\ ~hasId(rooms[call[p].room].players, call[p].uid)
        /\ Len(rooms[call[p].room].players) >= rooms[call[p].room].maxPlayers
        /\ rooms[call[p].room].status = "starting"

\* C21: a joinRoom that returns true for an identity that is not in the room
\* appends exactly one player with that id at the end of the players list,
\* with isHost = false and isReady = false, and leaves hostId, status, every
\* existing player and every other room unchanged.
C21_JoinAppendsOne ==
    [][\A p \in Procs :
          ( /\ pc[p] = "join_add" /\ pc'[p] = "done" /\ ret'[p] = "ok"
            /\ ~hasId(rooms[call[p].room].players, call[p].uid) ) =>
              LET r == call[p].room
                  before == rooms[r].players
                  after == rooms'[r].players
              IN  /\ Len(after) = Len(before) + 1
                  /\ SubSeq(after, 1, Len(before)) = before
                  /\ after[Len(after)].id = call[p].uid
                  /\ after[Len(after)].isHost = FALSE
                  /\ after[Len(after)].isReady = FALSE
                  /\ rooms' = [rooms EXCEPT ![r].players = after]]_vars

\* a join of a new identity has returned true and its record is the last of
\* a list that held others before
C21_Witness ==
    \E p \in Procs :
        /\ pc[p] = "done"
        /\ call[p].op = "joinRoom"
        /\ ret[p] = "ok"
        /\ <<call[p].room, call[p].uid>> \in joined
        /\ exists(call[p].room)
        /\ Len(rooms[call[p].room].players) >= 2
        /\ rooms[call[p].room].players[Len(rooms[call[p].room].players)].id = call[p].uid

\* C22: joinRoom by an identity already in the room's players list takes the
\* rejoin branch in every status and at every player count, a full room and
\* a room in status starting included: it throws none of joinRoom's errors,
\* and it returns true when its two writes find the room.
C22_RejoinAlwaysSucceeds ==
    [][\A p \in Procs :
          /\ ( /\ starts(p, "joinRoom")
               /\ exists(call'[p].room)
               /\ hasId(rooms[call'[p].room].players, call'[p].uid) )
                 => (pc'[p] = "rejoin_remove" /\ ret'[p] = "")
          /\ (pc[p] = "rejoin_remove" /\ exists(call[p].room))
                 => (pc'[p] \in {"rejoin_remove", "rejoin_add"} /\ ret'[p] = "")
          /\ (pc[p] = "rejoin_add" /\ exists(call[p].room) /\ pc'[p] # "rejoin_add")
                 => (pc'[p] = "done" /\ ret'[p] = "ok")]_vars

\* a member of a full room that has started has rejoined
C22_Witness ==
    \E p \in Procs :
        /\ pc[p] = "done"
        /\ call[p].op = "joinRoom"
        /\ ret[p] = "ok"
        /\ exists(call[p].room)
        /\ rooms[call[p].room].status = "starting"
        /\ Len(rooms[call[p].room].players) >= rooms[call[p].room].maxPlayers
        /\ hasId(rooms[call[p].room].players, call[p].uid)
        /\ <<call[p].room, call[p].uid>> \notin joined

\* C23: when a joinRoom by an identity already in the room returns, a
\* setPlayerReady by that player that committed while the rejoin was in
\* flight, and whose isReady is stored at the rejoin's last write, is not
\* reverted: every record of that player in the room carries the isReady
\* that setPlayerReady wrote.
C23_RejoinKeepsReady ==
    [][\A p \in Procs, q \in Procs :
          ( /\ pc[p] = "rejoin_add" /\ pc'[p] = "done" /\ ret'[p] = "ok"
            /\ q # p
            /\ pc[q] = "done" /\ ret[q] = "ok"
            /\ call[q].op = "setPlayerReady"
            /\ call[q].room = call[p].room
            /\ call[q].uid = call[p].uid
            /\ \E i \in 1..Len(rooms[call[p].room].players) :
                  /\ rooms[call[p].room].players[i].id = call[p].uid
                  /\ rooms[call[p].room].players[i].isReady = call[q].ready ) =>
              \A i \in 1..Len(rooms'[call[p].room].players) :
                  rooms'[call[p].room].players[i].id = call[p].uid
                      => rooms'[call[p].room].players[i].isReady = call[q].ready]_vars

\* a leaveRoom(r, u) that finds the collection rs returns without a write:
\* no room, no record of u, or a host record with nobody to hand the room to
leaveFindsNothingToDo(rs, r, u) ==
    \/ r \notin DOMAIN rs
    \/ findById(rs[r].players, u) = NoPlayer
    \/ /\ findById(rs[r].players, u).isHost
       /\ Len(rs[r].players) # 1
       /\ findOther(rs[r].players, u) = NoPlayer

\* C24: leaveRoom is idempotent. Called for an identity that is not in the
\* room, or for a room that does not exist, it returns without error and
\* changes nothing; and when a leaveRoom that no other call overlapped has
\* returned, a second leaveRoom of the same identity finds nothing to do.
C24_LeaveIdempotent ==
    [][\A p \in Procs :
          /\ ( /\ starts(p, "leaveRoom")
               /\ \/ ~exists(call'[p].room)
                  \/ ~hasId(rooms[call'[p].room].players, call'[p].uid) )
                 => (pc'[p] = "done" /\ ret'[p] = "ok" /\ rooms' = rooms)
          /\ ( /\ pc[p] \in {"leave_delete", "leave_transfer", "leave_remove"}
               /\ pc'[p] = "done" /\ ret'[p] = "ok"
               /\ \A q \in Procs \ {p} : pc'[q] = "idle" )
                 => leaveFindsNothingToDo(rooms', call[p].room, call[p].uid)]_vars

\* C26: a leaveRoom by a member that is not the host, which no other call
\* overlapped, removes exactly that player and leaves hostId, every other
\* player, the status and every other room unchanged, in every status.
C26_MemberLeaveRemovesOne ==
    [][\A p \in Procs :
          ( /\ pc[p] = "leave_remove" /\ pc'[p] = "done" /\ ret'[p] = "ok"
            /\ \A q \in Procs \ {p} : pc'[q] = "idle" ) =>
              rooms' = [rooms EXCEPT ![call[p].room].players =
                                        withoutId(@, call[p].uid)]]_vars

\* C29: createRoom returns the id of a new room whose players list holds only
\* the creator, with isHost = true and isReady = false, whose hostId is the
\* creator's id, whose status is waiting, maxPlayers 10 and minPlayers 5, and
\* whose settings are the defaults overridden by exactly the supplied
\* settings; no other room is changed.
C29_CreateRoomResult ==
    [][\A p \in Procs :
          starts(p, "createRoom") =>
              LET id == call'[p].room
                  creator == call'[p].uid
                  supplied == call'[p].settings
              IN  /\ pc'[p] = "done" /\ ret'[p] = "ok"
                  /\ id \notin DOMAIN rooms
                  /\ DOMAIN rooms' = DOMAIN rooms \cup {id}
                  /\ \A r \in DOMAIN rooms : rooms'[r] = rooms[r]
                  /\ Len(rooms'[id].players) = 1
                  /\ rooms'[id].players[1].id = creator
                  /\ rooms'[id].players[1].name = call'[p].name
                  /\ rooms'[id].players[1].isHost = TRUE
                  /\ rooms'[id].players[1].isReady = FALSE
                  /\ rooms'[id].hostId = creator
                  /\ rooms'[id].status = "waiting"
                  /\ rooms'[id].maxPlayers = 10
                  /\ rooms'[id].minPlayers = 5
                  /\ DOMAIN rooms'[id].settings
                        = {"allowSpectators", "chatEnabled", "timeLimit", "difficultyLevel"}
                  /\ \A k \in DOMAIN supplied : rooms'[id].settings[k] = supplied[k]
                  /\ "allowSpectators" \notin DOMAIN supplied
                        => rooms'[id].settings.allowSpectators = TRUE
                  /\ "chatEnabled" \notin DOMAIN supplied
                        => rooms'[id].settings.chatEnabled = TRUE
                  /\ "timeLimit" \notin DOMAIN supplied
                        => rooms'[id].settings.timeLimit = 60
                  /\ "difficultyLevel" \notin DOMAIN supplied
                        => rooms'[id].settings.difficultyLevel = "normal"]_vars

\* a room was created next to another one, with one setting supplied
C29_Witness ==
    \E p \in Procs :
        /\ pc[p] = "done"
        /\ call[p].op = "createRoom"
        /\ "chatEnabled" \in DOMAIN call[p].settings
        /\ exists(call[p].room)
        /\ rooms[call[p].room].settings.chatEnabled = FALSE
        /\ \E r \in DOMAIN rooms : r # call[p].room

\* C25: when the host is the only player of a room and calls leaveRoom, the
\* room is deleted, and a findRoomByCode with that room's gameCode served
\* after the deletion returns null.
C25_DeletedCodeNotFound ==
    [][\A p \in Procs :
          ( /\ pc[p] = "leave_delete" /\ pc'[p] = "done"
            /\ exists(call[p].room) ) =>
              /\ call[p].room \notin DOMAIN rooms'
              /\ findRoomByCode(rooms', rooms[call[p].room].gameCode) = {NoRoom}]_vars

\* C30: getAvailableRooms returns exactly the existing rooms whose status is
\* waiting or ready, each once, ordered by createdAt from newest to oldest.
C30_AvailableRooms ==
    LET res == getAvailableRooms(rooms)
    IN  /\ {res[i] : i \in 1..Len(res)}
              = {r \in DOMAIN rooms : rooms[r].status \in {"waiting", "ready"}}
        /\ \A i \in 1..Len(res), j \in 1..Len(res) : i # j => res[i] # res[j]
        /\ \A i \in 1..Len(res), j \in 1..Len(res) :
              i < j => rooms[res[i]].createdAt >= rooms[res[j]].createdAt

\* two rooms are open, created at different times: the older one comes second
C30_Witness ==
    /\ Len(getAvailableRooms(rooms)) = 2
    /\ rooms[getAvailableRooms(rooms)[1]].createdAt
          > rooms[getAvailableRooms(rooms)[2]].createdAt

\* C28: when the room a view subscribed to is deleted, the view's callback
\* gets null exactly once and is not called again for that room: a callback
\* gets null only when the room is gone, no listener gets null twice, none is
\* called after it got null, and a listener of a deleted room that the store
\* owes no snapshot has got its null.
C28_NullOnceThenSilent ==
    \A v \in Views :
        /\ listeners[v].nulls <= 1
        /\ ~listeners[v].late
        /\ listeners[v].nulls = 1 => ~exists(listeners[v].room)
        /\ (listeners[v].on /\ ~exists(listeners[v].room) /\ ~listeners[v].due)
              => listeners[v].nulls = 1

\* both views watched room 1 while it existed, a call deleted it, and each
\* view's callback has run on the deletion
C28_Witness ==
    /\ ~exists(1)
    /\ \E p \in Procs : /\ pc[p] = "done"
                        /\ call[p].op = "deleteRoom"
                        /\ call[p].room = 1
                        /\ ret[p] = "ok"
    /\ \A v \in Views :
          /\ listeners[v].on
          /\ listeners[v].room = 1
          /\ listeners[v].nulls = 1
          /\ ~listeners[v].due

\* the code with every letter in lower case: two codes differ in letter case
\* only when this is the same for both
lowerCased(code) ==
    CASE code \in {"AB12CD", "Ab12cD", "ab12cd"} -> "ab12cd"
      [] code \in {"ZZ99ZZ", "zz99zz"} -> "zz99zz"
      [] OTHER -> code

\* C31: findRoomByCode(code) returns a room whose gameCode is the upper-cased
\* code when there is one and null otherwise, it finds every room whose
\* gameCode is the code up to letter case, and two codes that differ in
\* letter case only give the same result.
C31_FindByCodeIgnoresCase ==
    \A code \in QueryCodes :
        LET res == findRoomByCode(rooms, code)
            matches == {r \in DOMAIN rooms : rooms[r].gameCode = toUpperCase(code)}
        IN  /\ matches # {} => res # {} /\ res \subseteq matches
            /\ matches = {} => res = {NoRoom}
            /\ \A r \in DOMAIN rooms :
                  lowerCased(rooms[r].gameCode) = lowerCased(code) => res # {NoRoom}
            /\ \A other \in QueryCodes :
                  lowerCased(other) = lowerCased(code)
                      => findRoomByCode(rooms, other) = res

\* two rooms exist, a created one with gameCode ZZ99ZZ among them: the
\* lookup of zz99zz returns that room and the lookup of Ab12cD the other
C31_Witness ==
    /\ \E r \in DOMAIN rooms : /\ rooms[r].gameCode = "ZZ99ZZ"
                               /\ findRoomByCode(rooms, "zz99zz") = {r}
    /\ \E r \in DOMAIN rooms : /\ rooms[r].gameCode = "AB12CD"
                               /\ findRoomByCode(rooms, "Ab12cD") = {r}

\* the errors that tell the caller the room does not exist: the two messages
\* the service throws after its read, and the store's error code for a write
\* to a missing document
notFound(res) == res \in {"Game room not found", "Room not found", "not-found"}

\* C32: a joinRoom, kickPlayer, deleteRoom or setPlayerReady that meets a
\* missing room, at its read or at a write after the room was deleted, ends
\* with a not-found error and leaves the collection as it was.
C32_MissingRoomNotFound ==
    [][\A p \in Procs :
          ( /\ pc'[p] # pc[p]
            /\ call'[p].op \in {"joinRoom", "kickPlayer", "deleteRoom", "setPlayerReady"}
            /\ ~exists(call'[p].room) ) =>
              /\ pc'[p] = "done"
              /\ notFound(ret'[p])
              /\ rooms' = rooms]_vars

\* C33: whenever every call has returned, a room whose status is ready has
\* every player ready and at least minPlayers players.
C33_ReadyMeansAllReady ==
    \A r \in DOMAIN rooms :
        ((\A p \in Procs : ~running(p)) /\ rooms[r].status = "ready") =>
            /\ everyReady(rooms[r].players)
            /\ Len(rooms[r].players) >= rooms[r].minPlayers

\* C34: the view of a member who has not called leaveRoom and against whom
\* no kickPlayer was called never gets a snapshot of the room without that
\* member: it never reports 'You have been removed from the room'.
C34_MemberInEverySnapshot ==
    \A v \in Views :
        (listeners[v].on /\ listeners[v].stays)
            => listeners[v].error # "You have been removed from the room"

\* the step is the callback of view v on a snapshot of an existing room
delivers(v) ==
    /\ listeners[v].on /\ listeners[v].due
    /\ listeners'[v].on /\ ~listeners'[v].due
    /\ exists(listeners[v].room)
    /\ UNCHANGED store

\* C36: when the callback runs on a snapshot whose players do not contain the
\* view's identity, the view keeps the room state it had and sets the timer
\* that calls onLeaveRoom; when the snapshot contains the identity the
\* callback adopts it and sets no timer; a timer once set stays set until it
\* fires, and then the room view is gone.
C36_ExitWhenNotInSnapshot ==
    [][\A v \in Views :
          /\ (delivers(v) /\ ~hasId(rooms[listeners[v].room].players, v))
                => /\ listeners'[v].shown = listeners[v].shown
                   /\ listeners'[v].exit
          /\ (delivers(v) /\ hasId(rooms[listeners[v].room].players, v))
                => /\ listeners'[v].shown = rooms[listeners[v].room]
                   /\ listeners'[v].exit = listeners[v].exit
                   /\ listeners'[v].error = listeners[v].error
          /\ (listeners[v].exit /\ ~listeners'[v].exit)
                => listeners'[v] = NoListener]_vars

\* the view held a room with its identity in it, then its callback ran on a
\* snapshot without the identity: the view still holds the earlier room and
\* the timer is set
C36_Witness ==
    \E v \in Views :
        /\ listeners[v].on /\ ~listeners[v].due
        /\ exists(listeners[v].room)
        /\ ~hasId(rooms[listeners[v].room].players, v)
        /\ listeners[v].shown # NoSnapshot
        /\ hasId(listeners[v].shown.players, v)
        /\ listeners[v].exit
        /\ listeners[v].error = "You have been removed from the room"

\* call slot p is about to return and no other call has run since it started
returnsAlone(p) ==
    /\ running(p) /\ pc'[p] = "done"
    /\ \A q \in Procs \ {p} : pc[q] = "idle"

\* C35: a call that ends with an error leaves the room document as it was
\* when the call started; stated for the two calls that write twice, with no
\* other call in between: after a rejoin that fails at its second write the
\* member is still in the list, and after a setPlayerReady that fails at its
\* status write the player's ready flag is the one it was.
C35_FailedCallChangesNothing ==
    [][\A p \in Procs :
          ( /\ returnsAlone(p)
            /\ ret'[p] # "ok"
            /\ call[p].room \in DOMAIN rooms' ) =>
              /\ pc[p] = "rejoin_add"
                    => hasId(rooms'[call[p].room].players, call[p].uid)
              /\ (pc[p] = "ready_status" /\ loc[p].old # NoPlayer)
                    => findById(rooms'[call[p].room].players, call[p].uid).isReady
                          = loc[p].old.isReady]_vars

\* C37: a user who follows a join link to a room they are a member of is
\* taken to the room view, whatever the number of players in the room.
C37_MemberAutoJoinEntersRoom ==
    \A code \in QueryCodes, u \in Users :
        \A r \in findRoomByCode(rooms, toUpperCase(code)) :
            (r # NoRoom /\ hasId(rooms[r].players, u))
                => handleAutoJoin(snapshot(rooms, r), u) = "room"

\* C38: a sign-out while the page holds a current room calls leaveRoom first
\* and ends the auth session only when leaveRoom has returned normally; when
\* the sign-out has succeeded, with no other call since it started, the user
\* is not in the players list of that room; a sign-out whose leaveRoom fails
\* ends with the error and without signOut(auth).
C38_SignOutLeavesFirst ==
    [][\A p \in Procs :
          /\ ( /\ call[p].op = "signOut" /\ pc[p] = "sign_out"
               /\ returnsAlone(p) /\ exists(call[p].room) )
                => /\ ret'[p] = "signed out"
                   /\ ~hasId(rooms'[call[p].room].players, call[p].uid)
                   /\ rooms' = rooms
          /\ ( /\ call'[p].op = "signOut" /\ pc'[p] = "done" /\ pc[p] # "done"
               /\ ret'[p] # "signed out" )
                => pc[p] \in {"leave_delete", "leave_transfer", "leave_remove"}]_vars

====
